---- MODULE Spec2Model ----
(***************************************************************************)
(* A model of the PayPal payment provider of medusa-payment-paypal:        *)
(* PayPalBase (src/src/core/paypal-base.ts) and convertAmount              *)
(* (src/src/core/utils/utils.ts).                                          *)
(*                                                                         *)
(* Every lifecycle method is an async function: it runs from one await to  *)
(* the next.  An action of the model is one such segment: the remote call  *)
(* that the method awaits resolves (with success or with one of the errors *)
(* the client can reject with), and the code up to the next await runs.    *)
(* The first segment of a method (the code before its first await) is the  *)
(* action that carries the method's name.                                  *)
(***************************************************************************)
EXTENDS Integers, Sequences, FiniteSets, TLC

VARIABLES
    options,   \* this.options_ : the configuration given to the constructor
    remote,    \* the orders held by the remote API, by order id
    pc,        \* per host call slot: the await the running method is at
    op,        \* per host call slot: the lifecycle method that runs
    input,     \* per host call slot: the arguments of the method
    local,     \* per host call slot: the locals that live across an await
    calls,     \* per host call slot: the remote calls issued by the method
    result,    \* per host call slot: how the method's promise settled
    nops       \* per host call slot: lifecycle methods invoked so far

vars == <<options, remote, pc, op, input, local, calls, result, nops>>

----------------------------------------------------------------------------
(* Bounds *)

\* lifecycle methods the host invokes on one call slot in one behaviour
MaxOps == 1

\* host call slots; Spec runs the first one only
Procs == {1, 2}

----------------------------------------------------------------------------
(* JavaScript values *)

Undefined == "undefined"
EOL == "\n"

\* a value together with the kind of thing it is
Val(t, v) == [type |-> t, value |-> v]
UndefinedVal == Val("undefined", <<>>)

\* how a promise settles
Return(t, v) == [kind |-> "return", type |-> t, value |-> v]
Throw(e) == [kind |-> "throw", type |-> "exception", value |-> e]
Pending == [kind |-> "none", type |-> "none", value |-> <<>>]

\* the TypeError of reading a property of undefined
TypeError == [message |-> "Cannot read properties of undefined"]

----------------------------------------------------------------------------
(* src/src/core/utils/utils.ts *)

PAYPAL_CURRENCY_CODES ==
    [AUD |-> <<>>, BRL |-> <<>>, CAD |-> <<>>, CNY |-> <<>>, CZK |-> <<>>,
     DKK |-> <<>>, EUR |-> <<>>, HKD |-> <<>>, HUF |-> [decimal |-> FALSE],
     ILS |-> <<>>, JPY |-> [decimal |-> FALSE], MYR |-> <<>>, MXN |-> <<>>,
     TWD |-> [decimal |-> FALSE], NZD |-> <<>>, NOK |-> <<>>, PHP |-> <<>>,
     PLN |-> <<>>, GBP |-> <<>>, RUB |-> <<>>, SGD |-> <<>>, SEK |-> <<>>,
     CHF |-> <<>>, THB |-> <<>>, USD |-> <<>>]

\* the currency codes the host passes in this model
CurrencyInputs == {"usd", "USD", "jpy", "xyz"}

\* String.prototype.toUpperCase on the currency codes of the model
toUpperCase(s) ==
    CASE s = "usd" -> "USD"
      [] s = "jpy" -> "JPY"
      [] s = "huf" -> "HUF"
      [] s = "twd" -> "TWD"
      [] s = "eur" -> "EUR"
      [] s = "xyz" -> "XYZ"
      [] OTHER -> s

\* amounts are numbers with at most three decimals, held in thousandths
AmountInputs == {0, 10000, 1995}

Digit(d) ==
    CASE d = 0 -> "0" [] d = 1 -> "1" [] d = 2 -> "2" [] d = 3 -> "3"
      [] d = 4 -> "4" [] d = 5 -> "5" [] d = 6 -> "6" [] d = 7 -> "7"
      [] d = 8 -> "8" [] d = 9 -> "9"

RECURSIVE NatStr(_)
NatStr(n) == IF n < 10 THEN Digit(n) ELSE NatStr(n \div 10) \o Digit(n % 10)

RECURSIVE Pow10(_)
Pow10(k) == IF k = 0 THEN 1 ELSE 10 * Pow10(k - 1)

RECURSIVE PadLeft(_, _)
PadLeft(s, k) == IF Len(s) >= k THEN s ELSE PadLeft("0" \o s, k)

\* a rendering that does not pad the fraction with zeros
toFixed_unpadded(milli, precision) ==
    LET unit   == Pow10(3 - precision)
        scaled == (milli + unit \div 2) \div unit
        whole  == scaled \div Pow10(precision)
        frac   == scaled % Pow10(precision)
    IN  IF precision = 0
        THEN NatStr(whole)
        ELSE NatStr(whole) \o "." \o NatStr(frac)

\* Number.prototype.toFixed(precision) of milli / 1000, precision <= 3
toFixed(milli, precision) ==
    LET unit   == Pow10(3 - precision)
        scaled == (milli + unit \div 2) \div unit
        whole  == scaled \div Pow10(precision)
        frac   == scaled % Pow10(precision)
    IN  IF precision = 0
        THEN NatStr(whole)
        ELSE NatStr(whole) \o "." \o PadLeft(NatStr(frac), precision)

\* convertAmount: the formatted amount, or the Error it throws
\* a conversion that looks the code up as it was given
convertAmount_caseSensitive(amount, currency) ==
    IF currency \notin DOMAIN PAYPAL_CURRENCY_CODES
    THEN [ok |-> FALSE,
          error |-> [message |-> "Currency " \o currency
                                  \o " is not supported by Paypal"]]
    ELSE [ok |-> TRUE,
          value |-> [value |-> toFixed(amount, 2), currency_code |-> currency]]

convertAmount(amount, currency) ==
    LET currency_ == toUpperCase(currency)
    IN  IF currency_ \notin DOMAIN PAYPAL_CURRENCY_CODES
        THEN [ok |-> FALSE,
              error |-> [message |-> "Currency " \o currency
                                      \o " is not supported by Paypal"]]
        ELSE
          LET currencyOptions == PAYPAL_CURRENCY_CODES[currency_]
              precision ==
                  IF "decimal" \in DOMAIN currencyOptions
                     /\ currencyOptions.decimal = FALSE
                  THEN 0
                  ELSE IF "places" \in DOMAIN currencyOptions
                       THEN currencyOptions.places
                       ELSE 2
              value == toFixed(amount, precision)
          IN  IF Len(value) > 32
              THEN [ok |-> FALSE,
                    error |-> [message |->
                        "Amount string exceeds 32 character limit: " \o value]]
              ELSE [ok |-> TRUE,
                    value |-> [value |-> value, currency_code |-> currency_]]

----------------------------------------------------------------------------
(* The remote API: orders, and the errors its client rejects with *)

OrderIds == {"O1", "O2"}

\* the order each authorization or capture id belongs to
OwnerOf(id) ==
    CASE id \in {"O1.A1", "O1.A2", "O1.C1", "O1.C2", "O1.C9"} -> "O1"
      [] id \in {"O2.A1", "O2.A2", "O2.C1", "O2.C2", "O2.C9"} -> "O2"

PaypalOrderStatus ==
    {"CREATED", "SAVED", "APPROVED", "PAYER_ACTION_REQUIRED", "VOIDED",
     "COMPLETED"}

\* a status the remote API may add later
RemoteStatuses == PaypalOrderStatus \cup {"PENDING_APPROVAL"}

PaymentsOf(auths, caps) == [authorizations |-> auths, captures |-> caps]

\* payments of a purchase unit: captures may be absent (captures?.length)
PaymentsDomain(o) ==
    { [authorizations |-> <<>>],
      [authorizations |-> <<o \o ".A1", o \o ".A2">>],
      PaymentsOf(<<o \o ".A1">>, <<>>),
      PaymentsOf(<<o \o ".A1">>, <<o \o ".C1", o \o ".C2">>),
      PaymentsOf(<<>>, <<o \o ".C1">>) }

Unit(cur, pay) == [amount |-> [currency_code |-> cur, value |-> "10.00"],
                   payments |-> pay]

\* purchase_units of the orders the remote API holds: one purchase unit
RemoteUnits(o) == { <<Unit("USD", pay)>> : pay \in PaymentsDomain(o) }

\* purchase_units of the session data the host passes: any snapshot of the
\* order, and orders of two purchase units; for the second session, which
\* runs only next to the first, an authorized and a captured snapshot
SessionUnits(o) ==
    IF o = "O2"
    THEN { <<Unit("USD", PaymentsOf(<<o \o ".A1">>, <<>>))>>,
           <<Unit("USD", PaymentsOf(<<o \o ".A1">>,
                                    <<o \o ".C1", o \o ".C2">>))>> }
    ELSE RemoteUnits(o)
         \cup { <<Unit("USD", PaymentsOf(<<o \o ".A1">>, <<>>)),
                  Unit("USD", PaymentsOf(<<>>, <<o \o ".C1">>))>>,
                <<Unit("XYZ", PaymentsOf(<<o \o ".A1">>, <<o \o ".C1">>)),
                  Unit("USD", PaymentsOf(<<>>, <<>>))>> }

Order(o, st, inv, units) ==
    [id |-> o, status |-> st, invoice_id |-> inv, purchase_units |-> units]

RemoteOrders(o) ==
    { Order(o, st, inv, units) :
        st \in RemoteStatuses, inv \in {"", "INV-1"}, units \in RemoteUnits(o) }

\* the errors a remote call rejects with: a provider-shaped error body or a
\* generic Error with a message
RemoteErrors(fn) ==
    { [error |-> fn \o " rejected", code |-> "REMOTE_" \o fn,
       detail |-> fn \o " detail"],
      [message |-> fn \o " failed"] }

\* the outcomes of one remote call
Outcomes(fn) ==
    { [ok |-> TRUE, error |-> <<>>] }
    \cup { [ok |-> FALSE, error |-> e] : e \in RemoteErrors(fn) }

NoBody == [none |-> TRUE]

\* one remote call as the client saw it: what was asked, whether it
\* resolved, and the value or error it settled with
Call(fn, id, body, ok, ret) ==
    [fn |-> fn, id |-> id, body |-> body, ok |-> ok, ret |-> ret]

\* PaypalSdk.createOrder: the order the remote API creates
CreatedOrder(body) ==
    [id |-> "NEW", status |-> "CREATED", intent |-> body.intent,
     purchase_units |-> body.purchase_units]

\* PaypalSdk.patchOrder: replace the amount of the default purchase unit
Patched(order, amount) ==
    [order EXCEPT !.purchase_units[1].amount = amount]

\* PaypalSdk.captureAuthorizedPayment: the authorization is captured
Captured(order) ==
    LET pay  == order.purchase_units[1].payments
        caps == IF "captures" \in DOMAIN pay THEN pay.captures ELSE <<>>
    IN  [order EXCEPT
           !.status = "COMPLETED",
           !.purchase_units[1].payments =
               ("captures" :> Append(caps, order.id \o ".C9")) @@ pay]

\* PaypalSdk.cancelAuthorizedPayment: the authorization is voided
Voided(order) == [order EXCEPT !.status = "VOIDED"]

\* PaypalSdk.refundPayment: a refund is recorded on the purchase unit
Refunded(order) ==
    LET pay  == order.purchase_units[1].payments
        refs == IF "refunds" \in DOMAIN pay THEN pay.refunds ELSE <<>>
    IN  [order EXCEPT
           !.purchase_units[1].payments =
               ("refunds" :> Append(refs, order.id \o ".R")) @@ pay]

----------------------------------------------------------------------------
(* src/src/core/paypal-base.ts : helpers *)

\* isPaymentProviderError (@medusajs/utils)
isPaymentProviderError(e) == {"error", "code", "detail"} \subseteq DOMAIN e

\* buildError(message, error) : the NormalizedError
buildError(message, error) ==
    [error  |-> message,
     code   |-> IF "code" \in DOMAIN error THEN error.code ELSE "unknown",
     detail |-> IF isPaymentProviderError(error)
                THEN error.error \o EOL \o error.detail
                ELSE IF "detail" \in DOMAIN error
                     THEN error.detail
                     ELSE error.message]

\* the value retrievePayment resolves with, given the outcome of getOrder:
\* the catch block builds an error and drops it, so the method falls off its
\* end and resolves with undefined
retrievePaymentValue(out, order) ==
    IF out.ok THEN Val("order", order) ELSE UndefinedVal

\* the switch with the COMPLETED case missing
PaymentSessionStatusOf_noCompleted(status) ==
    CASE status = "CREATED" -> "PENDING"
      [] status \in {"SAVED", "APPROVED", "PAYER_ACTION_REQUIRED"}
           -> "REQUIRES_MORE"
      [] status = "VOIDED" -> "CANCELED"
      [] OTHER -> "PENDING"

\* the switch of getPaymentStatus
PaymentSessionStatusOf(status) ==
    CASE status = "CREATED" -> "PENDING"
      [] status \in {"SAVED", "APPROVED", "PAYER_ACTION_REQUIRED"}
           -> "REQUIRES_MORE"
      [] status = "VOIDED" -> "CANCELED"
      [] status = "COMPLETED" -> "AUTHORIZED"
      [] OTHER -> "PENDING"

\* purchase_units.some((pu) => pu.payments.captures?.length)
isAlreadyCaptured(purchase_units) ==
    \E i \in 1..Len(purchase_units) :
        /\ "captures" \in DOMAIN purchase_units[i].payments
        /\ Len(purchase_units[i].payments.captures) > 0

\* payments.captures[0].id : the id, or the TypeError of reading it
firstCaptureId(payments) ==
    IF "captures" \in DOMAIN payments /\ Len(payments.captures) > 0
    THEN [ok |-> TRUE, id |-> payments.captures[1]]
    ELSE [ok |-> FALSE, id |-> ""]

\* payments.authorizations[0].id : the id, or the TypeError of reading it
firstAuthorizationId(payments) ==
    IF Len(payments.authorizations) > 0
    THEN [ok |-> TRUE, id |-> payments.authorizations[1]]
    ELSE [ok |-> FALSE, id |-> ""]

----------------------------------------------------------------------------
(* The host: what it passes to the lifecycle methods *)

\* the order of the session each call slot works for
OrderOf(p) == IF p = 1 THEN "O1" ELSE "O2"

\* paymentSessionData: the order snapshot the host stored for the session
SessionData(p) ==
    { [id |-> OrderOf(p), purchase_units |-> units] :
        units \in SessionUnits(OrderOf(p)) }

\* input.data of updatePayment, of which only the id is read
UpdateData(p) ==
    { [id |-> OrderOf(p), purchase_units |-> units] :
        units \in { <<Unit("USD", PaymentsOf(<<OrderOf(p) \o ".A1">>, <<>>))>>,
                    <<Unit("USD", [authorizations |-> <<>>])>> } }

\* the data argument of updatePaymentData
PayloadInputs ==
    { [metadata |-> "m"], [amount |-> 0, metadata |-> "m"],
      [amount |-> 1000, metadata |-> "m"] }

NoLocal == [status |-> "", id |-> "", body |-> NoBody, error |-> <<>>]

Args(data, amount, currency_code) ==
    [data |-> data, amount |-> amount, currency_code |-> currency_code,
     context |-> [session_id |-> "sess_" \o data.id]]

\* the host invokes method o with arguments in on call slot p
Invoke(p, o, in) ==
    /\ pc[p] = "idle"
    /\ nops[p] < MaxOps
    /\ nops' = [nops EXCEPT ![p] = @ + 1]
    /\ op' = [op EXCEPT ![p] = o]
    /\ input' = [input EXCEPT ![p] = in]
    /\ calls' = [calls EXCEPT ![p] = <<>>]

\* locals kept in a field of the adapter that every call shares
Await_shared(p, l, loc) ==
    /\ pc' = [pc EXCEPT ![p] = l]
    /\ local' = [q \in Procs |-> loc]
    /\ result' = [result EXCEPT ![p] = Pending]

\* the method goes on to await the remote call at label l
Await(p, l, loc) ==
    /\ pc' = [pc EXCEPT ![p] = l]
    /\ local' = [local EXCEPT ![p] = loc]
    /\ result' = [result EXCEPT ![p] = Pending]

\* the method's promise settles with r
Settle(p, r) ==
    /\ pc' = [pc EXCEPT ![p] = "done"]
    /\ local' = [local EXCEPT ![p] = NoLocal]
    /\ result' = [result EXCEPT ![p] = r]

\* the host takes the settled promise; the adapter keeps nothing of the call
Resume(p) ==
    /\ pc[p] = "done"
    /\ pc' = [pc EXCEPT ![p] = "idle"]
    /\ op' = [op EXCEPT ![p] = ""]
    /\ input' = [input EXCEPT ![p] = Args([id |-> OrderOf(p)], 0, "usd")]
    /\ calls' = [calls EXCEPT ![p] = <<>>]
    /\ result' = [result EXCEPT ![p] = Pending]
    /\ UNCHANGED <<options, remote, local, nops>>

\* the remote call fn(id, body) of slot p resolved with outcome out
Issue(p, fn, id, body, out) ==
    LET ret == IF ~out.ok THEN Val("error", out.error)
               ELSE IF fn = "getOrder" THEN Val("order", remote[id])
               ELSE IF fn = "createOrder" THEN Val("order", CreatedOrder(body))
               ELSE Val("none", <<>>)
    IN  calls' = [calls EXCEPT ![p] = Append(@, Call(fn, id, body, out.ok, ret))]

----------------------------------------------------------------------------
(* getPaymentStatus, paypal-base.ts 63-84 *)

\* the code after `await this.retrievePayment(...)`: order.status throws a
\* TypeError when the retrieval resolved with undefined
getPaymentStatusOf(order) ==
    IF order.type = "undefined"
    THEN Throw(TypeError)
    ELSE Return("status", PaymentSessionStatusOf(order.value.status))

getPaymentStatus(p) ==
    /\ \E sd \in SessionData(p) :
         Invoke(p, "getPaymentStatus", Args(sd, 0, "usd"))
    /\ Await(p, "getPaymentStatus.getOrder", NoLocal)
    /\ UNCHANGED <<options, remote>>

getPaymentStatus_getOrder(p) ==
    /\ pc[p] = "getPaymentStatus.getOrder"
    /\ \E out \in Outcomes("getOrder") :
         LET id == input[p].data.id IN
         /\ Issue(p, "getOrder", id, NoBody, out)
         /\ Settle(p, getPaymentStatusOf(retrievePaymentValue(out, remote[id])))
    /\ UNCHANGED <<options, remote, op, input, nops>>

----------------------------------------------------------------------------
(* retrievePayment, paypal-base.ts 236-247 *)

retrievePayment(p) ==
    /\ \E sd \in SessionData(p) :
         Invoke(p, "retrievePayment", Args(sd, 0, "usd"))
    /\ Await(p, "retrievePayment.getOrder", NoLocal)
    /\ UNCHANGED <<options, remote>>

retrievePayment_getOrder(p) ==
    /\ pc[p] = "retrievePayment.getOrder"
    /\ \E out \in Outcomes("getOrder") :
         LET id == input[p].data.id
             v  == retrievePaymentValue(out, remote[id]) IN
         /\ Issue(p, "getOrder", id, NoBody, out)
         /\ Settle(p, Return(v.type, v.value))
    /\ UNCHANGED <<options, remote, op, input, nops>>

----------------------------------------------------------------------------
(* authorizePayment, paypal-base.ts 120-139 *)

authorizePayment(p) ==
    /\ \E sd \in SessionData(p) :
         Invoke(p, "authorizePayment", Args(sd, 0, "usd"))
    /\ Await(p, "authorizePayment.getPaymentStatus", NoLocal)
    /\ UNCHANGED <<options, remote>>

\* const status = await this.getPaymentStatus(paymentSessionData)
authorizePayment_getPaymentStatus(p) ==
    /\ pc[p] = "authorizePayment.getPaymentStatus"
    /\ \E out \in Outcomes("getOrder") :
         LET id == input[p].data.id
             st == getPaymentStatusOf(retrievePaymentValue(out, remote[id]))
         IN
         /\ Issue(p, "getOrder", id, NoBody, out)
         /\ IF st.kind = "throw"
            THEN Settle(p, Return("error",
                     buildError("An error occurred in authorizePayment",
                                st.value)))
            ELSE Await(p, "authorizePayment.retrievePayment",
                       [NoLocal EXCEPT !.status = st.value])
    /\ UNCHANGED <<options, remote, op, input, nops>>

\* const data = await this.retrievePayment(...) ; return { data, status }
authorizePayment_retrievePayment(p) ==
    /\ pc[p] = "authorizePayment.retrievePayment"
    /\ \E out \in Outcomes("getOrder") :
         LET id   == input[p].data.id
             data == retrievePaymentValue(out, remote[id]) IN
         /\ Issue(p, "getOrder", id, NoBody, out)
         /\ Settle(p, Return("authorized",
                [data |-> data, status |-> local[p].status]))
    /\ UNCHANGED <<options, remote, op, input, nops>>

----------------------------------------------------------------------------
(* cancelPayment, paypal-base.ts 141-176 *)

cancelPayment(p) ==
    /\ \E sd \in SessionData(p) :
         Invoke(p, "cancelPayment", Args(sd, 0, "usd"))
    /\ Await(p, "cancelPayment.retrievePayment", NoLocal)
    /\ UNCHANGED <<options, remote>>

\* isCanceled without the fully-refunded case of line 147
isCanceled_onlyVoided(order) == order.status = "VOIDED"

\* lines 146-151: the short-circuit on the retrieved order
isCanceled(order) ==
    \/ order.status = "VOIDED"
    \/ order.status = "COMPLETED" /\ order.invoice_id # ""

\* lines 153-168: the call the try block goes on to await, chosen from the
\* purchase units of paymentSessionData, or the TypeError it throws on the way
cancelTarget(purchase_units) ==
    IF isAlreadyCaptured(purchase_units)
    THEN LET c == firstCaptureId(purchase_units[1].payments) IN
         [ok |-> c.ok, fn |-> "refundPayment", id |-> c.id]
    ELSE LET a == firstAuthorizationId(purchase_units[1].payments) IN
         [ok |-> a.ok, fn |-> "cancelAuthorizedPayment", id |-> a.id]

\* lines 144-168: the first retrieval resolves; order.status is read outside
\* the try block
cancelPayment_retrievePayment(p) ==
    /\ pc[p] = "cancelPayment.retrievePayment"
    /\ \E out \in Outcomes("getOrder") :
         LET id     == input[p].data.id
             order  == retrievePaymentValue(out, remote[id])
             target == cancelTarget(input[p].data.purchase_units)
         IN
         /\ Issue(p, "getOrder", id, NoBody, out)
         /\ IF order.type = "undefined"
            THEN Settle(p, Throw(TypeError))
            ELSE IF isCanceled(order.value)
            THEN Settle(p, Return("order", order.value))
            ELSE IF ~target.ok
            THEN Settle(p, Return("error",
                     buildError("An error occurred in cancelPayment",
                                TypeError)))
            ELSE Await(p, "cancelPayment." \o target.fn,
                       [NoLocal EXCEPT !.id = target.id])
    /\ UNCHANGED <<options, remote, op, input, nops>>

\* line 164: await this.paypal_.refundPayment(payId)
cancelPayment_refundPayment(p) ==
    /\ pc[p] = "cancelPayment.refundPayment"
    /\ \E out \in Outcomes("refundPayment") :
         LET id == local[p].id IN
         /\ Issue(p, "refundPayment", id, NoBody, out)
         /\ IF out.ok
            THEN /\ remote' = [remote EXCEPT ![OwnerOf(id)] = Refunded(@)]
                 /\ Await(p, "cancelPayment.retrieveAgain", NoLocal)
            ELSE /\ UNCHANGED remote
                 /\ Settle(p, Return("error",
                      buildError("An error occurred in cancelPayment",
                                 out.error)))
    /\ UNCHANGED <<options, op, input, nops>>

\* line 167: await this.paypal_.cancelAuthorizedPayment(id)
cancelPayment_cancelAuthorizedPayment(p) ==
    /\ pc[p] = "cancelPayment.cancelAuthorizedPayment"
    /\ \E out \in Outcomes("cancelAuthorizedPayment") :
         LET id == local[p].id IN
         /\ Issue(p, "cancelAuthorizedPayment", id, NoBody, out)
         /\ IF out.ok
            THEN /\ remote' = [remote EXCEPT ![OwnerOf(id)] = Voided(@)]
                 /\ Await(p, "cancelPayment.retrieveAgain", NoLocal)
            ELSE /\ UNCHANGED remote
                 /\ Settle(p, Return("error",
                      buildError("An error occurred in cancelPayment",
                                 out.error)))
    /\ UNCHANGED <<options, op, input, nops>>

\* lines 170-172: return await this.retrievePayment(paymentSessionData)
cancelPayment_retrieveAgain(p) ==
    /\ pc[p] = "cancelPayment.retrieveAgain"
    /\ \E out \in Outcomes("getOrder") :
         LET id == input[p].data.id
             v  == retrievePaymentValue(out, remote[id]) IN
         /\ Issue(p, "getOrder", id, NoBody, out)
         /\ Settle(p, Return(v.type, v.value))
    /\ UNCHANGED <<options, remote, op, input, nops>>

----------------------------------------------------------------------------
(* capturePayment, paypal-base.ts 178-193 *)

\* lines 181-185 run outside the try block: reading the first authorization
\* id of a purchase unit without authorizations throws
capturePayment(p) ==
    /\ \E sd \in SessionData(p) :
         /\ Invoke(p, "capturePayment", Args(sd, 0, "usd"))
         /\ LET a == firstAuthorizationId(sd.purchase_units[1].payments) IN
            IF a.ok
            THEN Await(p, "capturePayment.captureAuthorizedPayment",
                       [NoLocal EXCEPT !.id = a.id])
            ELSE Settle(p, Throw(TypeError))
    /\ UNCHANGED <<options, remote>>

capturePayment_captureAuthorizedPayment(p) ==
    /\ pc[p] = "capturePayment.captureAuthorizedPayment"
    /\ \E out \in Outcomes("captureAuthorizedPayment") :
         LET id == local[p].id IN
         /\ Issue(p, "captureAuthorizedPayment", id, NoBody, out)
         /\ IF out.ok
            THEN /\ remote' = [remote EXCEPT ![OwnerOf(id)] = Captured(@)]
                 /\ Await(p, "capturePayment.retrievePayment", NoLocal)
            ELSE /\ UNCHANGED remote
                 /\ Settle(p, Return("error",
                      buildError("an error occurred in capturePayment",
                                 out.error)))
    /\ UNCHANGED <<options, op, input, nops>>

\* a capturePayment that returns the snapshot it was called with instead of
\* retrieving the order again
capturePayment_returnSnapshot(p) ==
    /\ pc[p] = "capturePayment.retrievePayment"
    /\ Settle(p, Return("order", input[p].data))
    /\ UNCHANGED <<options, remote, op, input, nops, calls>>

capturePayment_retrievePayment(p) ==
    /\ pc[p] = "capturePayment.retrievePayment"
    /\ \E out \in Outcomes("getOrder") :
         LET id == input[p].data.id
             v  == retrievePaymentValue(out, remote[id]) IN
         /\ Issue(p, "getOrder", id, NoBody, out)
         /\ Settle(p, Return(v.type, v.value))
    /\ UNCHANGED <<options, remote, op, input, nops>>

----------------------------------------------------------------------------
(* deletePayment, paypal-base.ts 199-203 *)

deletePayment(p) ==
    /\ \E sd \in SessionData(p) :
         /\ Invoke(p, "deletePayment", Args(sd, 0, "usd"))
         /\ Settle(p, Return("data", sd))
    /\ UNCHANGED <<options, remote>>

----------------------------------------------------------------------------
(* refundPayment, paypal-base.ts 205-234 *)

\* refundRequest without the guard of lines 220-222
refundRequest_noGuard(purchase_units, refundAmount) ==
    LET purchaseUnit == purchase_units[1]
        c            == firstCaptureId(purchaseUnit.payments)
        amount       == convertAmount(refundAmount,
                                      purchaseUnit.amount.currency_code)
    IN  IF ~c.ok
        THEN [ok |-> FALSE, error |-> TypeError]
        ELSE IF ~amount.ok
        THEN [ok |-> FALSE, error |-> amount.error]
        ELSE [ok |-> TRUE, id |-> c.id, body |-> [amount |-> amount.value]]

\* lines 213-228 up to the await: the refund call to issue, or the error
\* thrown inside the try block before any call
refundRequest(purchase_units, refundAmount) ==
    LET purchaseUnit == purchase_units[1]
        payments     == purchaseUnit.payments
        c            == firstCaptureId(payments)
        amount       == convertAmount(refundAmount,
                                      purchaseUnit.amount.currency_code)
    IN  IF ~isAlreadyCaptured(purchase_units)
        THEN [ok |-> FALSE,
              error |-> [message |-> "Cannot refund an uncaptured payment"]]
        ELSE IF ~c.ok
        THEN [ok |-> FALSE, error |-> TypeError]
        ELSE IF ~amount.ok
        THEN [ok |-> FALSE, error |-> amount.error]
        ELSE [ok |-> TRUE, id |-> c.id, body |-> [amount |-> amount.value]]

refundPayment(p) ==
    /\ \E sd \in SessionData(p), refundAmount \in AmountInputs :
         /\ Invoke(p, "refundPayment", Args(sd, refundAmount, "usd"))
         /\ LET r == refundRequest(sd.purchase_units, refundAmount) IN
            IF r.ok
            THEN Await(p, "refundPayment.refundPayment",
                       [NoLocal EXCEPT !.id = r.id, !.body = r.body])
            ELSE Settle(p, Return("error",
                     buildError("An error occurred in refundPayment",
                                r.error)))
    /\ UNCHANGED <<options, remote>>

refundPayment_refundPayment(p) ==
    /\ pc[p] = "refundPayment.refundPayment"
    /\ \E out \in Outcomes("refundPayment") :
         LET id == local[p].id IN
         /\ Issue(p, "refundPayment", id, local[p].body, out)
         /\ IF out.ok
            THEN /\ remote' = [remote EXCEPT ![OwnerOf(id)] = Refunded(@)]
                 /\ Await(p, "refundPayment.retrievePayment", NoLocal)
            ELSE /\ UNCHANGED remote
                 /\ Settle(p, Return("error",
                      buildError("An error occurred in refundPayment",
                                 out.error)))
    /\ UNCHANGED <<options, op, input, nops>>

refundPayment_retrievePayment(p) ==
    /\ pc[p] = "refundPayment.retrievePayment"
    /\ \E out \in Outcomes("getOrder") :
         LET id == input[p].data.id
             v  == retrievePaymentValue(out, remote[id]) IN
         /\ Issue(p, "getOrder", id, NoBody, out)
         /\ Settle(p, Return(v.type, v.value))
    /\ UNCHANGED <<options, remote, op, input, nops>>

----------------------------------------------------------------------------
(* initiatePayment, paypal-base.ts 86-118 *)

InitiateMessage ==
    "An error ocurred in InitiatePayment during the creation of the PayPal payment intent"

\* lines 89-107 up to the await: the createOrder request, or the error that
\* convertAmount throws inside the try block
\* a request whose intent does not follow the configuration
createOrderRequest_fixedIntent(in) ==
    LET amount == convertAmount(in.amount, in.currency_code)
    IN  IF amount.ok
        THEN [ok |-> TRUE,
              body |-> [intent |-> "AUTHORIZE",
                        purchase_units |->
                            <<[custom_id |-> in.context.session_id,
                               amount |-> amount.value]>>]]
        ELSE [ok |-> FALSE, error |-> amount.error]

createOrderRequest(in) ==
    LET session_id == in.context.session_id
        intent     == IF options.capture THEN "CAPTURE" ELSE "AUTHORIZE"
        amount     == convertAmount(in.amount, in.currency_code)
    IN  IF amount.ok
        THEN [ok |-> TRUE,
              body |-> [intent |-> intent,
                        purchase_units |->
                            <<[custom_id |-> session_id,
                               amount |-> amount.value]>>]]
        ELSE [ok |-> FALSE, error |-> amount.error]

\* the catch block of lines 108-113
initiateError(e) == Return("error", buildError(InitiateMessage, e))

initiatePayment(p) ==
    /\ \E amount \in AmountInputs, currency_code \in CurrencyInputs :
         LET in == Args([id |-> OrderOf(p)], amount, currency_code) IN
         /\ Invoke(p, "initiatePayment", in)
         /\ LET r == createOrderRequest(in) IN
            IF r.ok
            THEN Await(p, "initiatePayment.createOrder",
                       [NoLocal EXCEPT !.body = r.body])
            ELSE Settle(p, initiateError(r.error))
    /\ UNCHANGED <<options, remote>>

\* line 267: .catch((e) => this.buildError(..., error)) around the fallback
\* initiatePayment: only a rejection of initiatePayment reaches it
updateFallback(r, error) ==
    IF r.kind = "throw"
    THEN Return("error", buildError("An error occurred in updatePayment", error))
    ELSE r

\* lines 99-117: createOrder resolves; runs for initiatePayment and for the
\* initiatePayment that updatePayment falls back to
initiatePayment_createOrder(p) ==
    /\ pc[p] = "initiatePayment.createOrder"
    /\ \E out \in Outcomes("createOrder") :
         LET body == local[p].body
             r    == IF out.ok
                     THEN Return("response", [data |-> CreatedOrder(body)])
                     ELSE initiateError(out.error)
         IN
         /\ Issue(p, "createOrder", "", body, out)
         /\ Settle(p, IF op[p] = "updatePayment"
                      THEN updateFallback(r, local[p].error)
                      ELSE r)
    /\ UNCHANGED <<options, remote, op, input, nops>>

----------------------------------------------------------------------------
(* updatePayment, paypal-base.ts 249-271 *)

\* a catch block that surfaces the patch error instead of falling back
updatePaymentCatch_surface(p, in, error) ==
    Settle(p, Return("error",
                     buildError("An error occurred in updatePayment", error)))

\* lines 266-270: the catch block re-runs initiatePayment with the same input
updatePaymentCatch(p, in, error) ==
    LET r == createOrderRequest(in) IN
    IF r.ok
    THEN Await(p, "initiatePayment.createOrder",
               [NoLocal EXCEPT !.body = r.body, !.error = error])
    ELSE Settle(p, updateFallback(initiateError(r.error), error))

updatePayment(p) ==
    /\ \E sd \in UpdateData(p), amount \in AmountInputs,
          currency_code \in CurrencyInputs :
         LET in == Args(sd, amount, currency_code)
             a  == convertAmount(amount, currency_code) IN
         /\ Invoke(p, "updatePayment", in)
         /\ IF a.ok
            THEN Await(p, "updatePayment.patchOrder",
                       [NoLocal EXCEPT !.body = [amount |-> a.value]])
            ELSE updatePaymentCatch(p, in, a.error)
    /\ UNCHANGED <<options, remote>>

updatePayment_patchOrder(p) ==
    /\ pc[p] = "updatePayment.patchOrder"
    /\ \E out \in Outcomes("patchOrder") :
         LET id == input[p].data.id IN
         /\ Issue(p, "patchOrder", id, local[p].body, out)
         /\ IF out.ok
            THEN /\ remote' = [remote EXCEPT
                                 ![id] = Patched(@, local[p].body.amount)]
                 /\ Settle(p, Return("response", [data |-> input[p].data]))
            ELSE /\ UNCHANGED remote
                 /\ updatePaymentCatch(p, input[p], out.error)
    /\ UNCHANGED <<options, op, input, nops>>

----------------------------------------------------------------------------
(* updatePaymentData, paypal-base.ts 273-291 *)

\* new MedusaError(INVALID_DATA, message): its code property is set to the
\* constructor's third argument, which is not passed
MedusaError ==
    [type |-> "invalid_data",
     message |-> "Cannot update amount, use updatePayment instead",
     code |-> Undefined]

\* if (data.amount): the field is there and its value is truthy
hasAmount(data) == "amount" \in DOMAIN data /\ data.amount # 0

updatePaymentData(p) ==
    /\ \E data \in PayloadInputs :
         /\ Invoke(p, "updatePaymentData",
                   [data |-> data, amount |-> 0, currency_code |-> "usd",
                    context |-> [session_id |-> "sess_" \o OrderOf(p)]])
         /\ IF hasAmount(data)
            THEN Settle(p, Return("error",
                     buildError("An error occurred in updatePaymentData",
                                MedusaError)))
            ELSE Settle(p, Return("data", data))
    /\ UNCHANGED <<options, remote>>

----------------------------------------------------------------------------
(* retrieveOrderFromAuth, paypal-base.ts 293-303 *)

\* the position of the first sep in s, 0 when there is none
RECURSIVE indexOf(_, _, _)
indexOf(s, sep, i) ==
    IF i > Len(s) THEN 0
    ELSE IF SubSeq(s, i, i) = sep THEN i
    ELSE indexOf(s, sep, i + 1)

\* String.prototype.split with a one-character separator
RECURSIVE split(_, _)
split(s, sep) ==
    LET i == indexOf(s, sep, 1) IN
    IF i = 0 THEN <<s>>
    ELSE <<SubSeq(s, 1, i - 1)>> \o split(SubSeq(s, i + 1, Len(s)), sep)

\* authorization.links.find((l) => l.rel === "up"): the index, 0 for undefined
findUp(links) ==
    IF \E i \in 1..Len(links) : "rel" \in DOMAIN links[i] /\ links[i].rel = "up"
    THEN CHOOSE i \in 1..Len(links) :
           /\ "rel" \in DOMAIN links[i] /\ links[i].rel = "up"
           /\ \A j \in 1..(i - 1) :
                ~("rel" \in DOMAIN links[j] /\ links[j].rel = "up")
    ELSE 0

\* lines 294-300 up to the await: the order id to fetch, null, or the
\* TypeError of reading href of undefined or split of undefined
orderIdOfAuth(authorization) ==
    LET k == findUp(authorization.links) IN
    IF k = 0 \/ "href" \notin DOMAIN authorization.links[k]
    THEN [kind |-> "throw", id |-> ""]
    ELSE LET parts   == split(authorization.links[k].href, "/")
             orderId == parts[Len(parts)]
         IN  IF orderId = ""
             THEN [kind |-> "null", id |-> ""]
             ELSE [kind |-> "fetch", id |-> orderId]

\* the authorization objects the host passes
AuthorizationInputs(p) ==
    LET o    == OrderOf(p)
        self == [rel |-> "self", href |-> "https://api/v2/payments/" \o o]
        up   == [rel |-> "up", href |-> "https://api/v2/checkout/orders/" \o o]
    IN  { [links |-> <<self, up>>],
          [links |-> <<self>>],
          [links |-> <<>>],
          [links |-> <<[rel |-> "up"]>>],
          [links |-> <<[rel |-> "up",
                        href |-> "https://api/v2/checkout/orders/"]>>] }

AuthArgs(p, data) ==
    [data |-> data, amount |-> 0, currency_code |-> "usd",
     context |-> [session_id |-> "sess_" \o OrderOf(p)]]

retrieveOrderFromAuth(p) ==
    /\ \E authorization \in AuthorizationInputs(p) :
         /\ Invoke(p, "retrieveOrderFromAuth", AuthArgs(p, authorization))
         /\ LET r == orderIdOfAuth(authorization) IN
            CASE r.kind = "throw" -> Settle(p, Throw(TypeError))
              [] r.kind = "null"  -> Settle(p, Return("null", <<>>))
              [] r.kind = "fetch" ->
                   Await(p, "retrieveOrderFromAuth.getOrder",
                         [NoLocal EXCEPT !.id = r.id])
    /\ UNCHANGED <<options, remote>>

\* line 302: return await this.paypal_.getOrder(orderId), outside any try
retrieveOrderFromAuth_getOrder(p) ==
    /\ pc[p] = "retrieveOrderFromAuth.getOrder"
    /\ \E out \in Outcomes("getOrder") :
         LET id == local[p].id IN
         /\ Issue(p, "getOrder", id, NoBody, out)
         /\ Settle(p, IF out.ok THEN Return("order", remote[id])
                      ELSE Throw(out.error))
    /\ UNCHANGED <<options, remote, op, input, nops>>

----------------------------------------------------------------------------
(* retrieveAuthorization, paypal-base.ts 305-307 *)

\* PaypalSdk.getAuthorizationPayment: the authorization with its links
AuthorizationOf(id) ==
    [id |-> id,
     links |-> <<[rel |-> "up",
                  href |-> "https://api/v2/checkout/orders/" \o OwnerOf(id)]>>]

retrieveAuthorization(p) ==
    /\ \E id \in {OrderOf(p) \o ".A1", OrderOf(p) \o ".A2"} :
         Invoke(p, "retrieveAuthorization", AuthArgs(p, [id |-> id]))
    /\ Await(p, "retrieveAuthorization.getAuthorizationPayment", NoLocal)
    /\ UNCHANGED <<options, remote>>

retrieveAuthorization_getAuthorizationPayment(p) ==
    /\ pc[p] = "retrieveAuthorization.getAuthorizationPayment"
    /\ \E out \in Outcomes("getAuthorizationPayment") :
         LET id == input[p].data.id IN
         /\ Issue(p, "getAuthorizationPayment", id, NoBody, out)
         /\ Settle(p, IF out.ok
                      THEN Return("authorization", AuthorizationOf(id))
                      ELSE Throw(out.error))
    /\ UNCHANGED <<options, remote, op, input, nops>>

----------------------------------------------------------------------------
(* verifyWebhook, paypal-base.ts 329-334 *)

\* the verification data the host passes, without and with a webhook_id
WebhookSignatureInputs ==
    { [transmission_id |-> "T-1", webhook_event |-> "EVT"],
      [transmission_id |-> "T-1", webhook_event |-> "EVT",
       webhook_id |-> "WH-CALLER"] }

\* the second option name taking precedence over the first
configuredWebhookId_second ==
    IF options.authWebhookId # ""
    THEN options.authWebhookId
    ELSE options.auth_webhook_id

\* this.options_.auth_webhook_id || this.options_.authWebhookId
configuredWebhookId ==
    IF options.auth_webhook_id # ""
    THEN options.auth_webhook_id
    ELSE options.authWebhookId

\* { webhook_id: ..., ...data }: the fields of data are spread last
verifyWebhookRequest(data) == data @@ [webhook_id |-> configuredWebhookId]

verifyWebhook(p) ==
    /\ \E data \in WebhookSignatureInputs :
         /\ Invoke(p, "verifyWebhook", AuthArgs(p, data))
         /\ Await(p, "verifyWebhook.verifyWebhook",
                  [NoLocal EXCEPT !.body = verifyWebhookRequest(data)])
    /\ UNCHANGED <<options, remote>>

\* the remote verdict is returned as it is; a rejection is not caught
verifyWebhook_verifyWebhook(p) ==
    /\ pc[p] = "verifyWebhook.verifyWebhook"
    /\ \E out \in Outcomes("verifyWebhook"), verified \in BOOLEAN :
         /\ Issue(p, "verifyWebhook", "", local[p].body, out)
         /\ Settle(p, IF out.ok THEN Return("boolean", verified)
                      ELSE Throw(out.error))
    /\ UNCHANGED <<options, remote, op, input, nops>>

----------------------------------------------------------------------------
(* getWebhookActionAndData, paypal-base.ts 336-384 *)

DigitValue(c) ==
    CASE c = "0" -> 0 [] c = "1" -> 1 [] c = "2" -> 2 [] c = "3" -> 3
      [] c = "4" -> 4 [] c = "5" -> 5 [] c = "6" -> 6 [] c = "7" -> 7
      [] c = "8" -> 8 [] c = "9" -> 9

\* the number a string of digits writes
RECURSIVE digitsValue(_)
digitsValue(s) ==
    IF s = "" THEN 0
    ELSE 10 * digitsValue(SubSeq(s, 1, Len(s) - 1))
         + DigitValue(SubSeq(s, Len(s), Len(s)))

\* parseFloat of a fixed-point string of at most three decimals, in
\* thousandths
parseFloat(s) ==
    LET i == indexOf(s, ".", 1) IN
    IF i = 0 THEN 1000 * digitsValue(s)
    ELSE LET frac == SubSeq(s, i + 1, Len(s)) IN
         1000 * digitsValue(SubSeq(s, 1, i - 1))
         + digitsValue(frac) * Pow10(3 - Len(frac))

\* line 354: the event is a placeholder and is not read from the payload
webhookEvent(webhookData) == "unknown"

\* lines 356-383: the switch on the event
webhookAction(event, amount, paymentId, authorizationId) ==
    CASE event = "authorized" ->
           [action |-> "AUTHORIZED",
            data |-> [amount |-> amount, session_id |-> authorizationId]]
      [] event = "succeeded" ->
           [action |-> "SUCCESSFUL",
            data |-> [amount |-> amount, session_id |-> paymentId]]
      [] event = "failed" ->
           \* paymentId ?? authorizationId: paymentId is a string here
           [action |-> "FAILED",
            data |-> [amount |-> amount, session_id |-> paymentId]]
      [] OTHER -> [action |-> "NOT_SUPPORTED"]

\* the webhook payloads the host passes: an event and an order-shaped body
WebhookInputs(p) ==
    { [event |-> e, data |-> [purchase_units |-> units]] :
        e \in {"authorized", "succeeded", "failed", "other"},
        units \in SessionUnits(OrderOf(p)) }

\* lines 339-383: the ids are read before the switch, and reading the id of
\* a missing first capture or first authorization throws
getWebhookActionAndData(p) ==
    /\ \E webhookData \in WebhookInputs(p) :
         /\ Invoke(p, "getWebhookActionAndData", AuthArgs(p, webhookData))
         /\ LET purchaseUnit == webhookData.data.purchase_units[1]
                payments     == purchaseUnit.payments
                c            == firstCaptureId(payments)
                a            == firstAuthorizationId(payments)
                amount       == parseFloat(purchaseUnit.amount.value)
            IN  IF ~c.ok \/ ~a.ok
                THEN Settle(p, Throw(TypeError))
                ELSE Settle(p, Return("webhook",
                         webhookAction(webhookEvent(webhookData), amount,
                                       c.id, a.id)))
    /\ UNCHANGED <<options, remote>>

----------------------------------------------------------------------------
(* The specification *)

\* the order the remote API holds for a session nobody works on
IdleOrder(o) ==
    Order(o, "APPROVED", "", <<Unit("USD", PaymentsOf(<<o \o ".A1">>, <<>>))>>)

\* the configurations of the model: both intents, with the webhook id set
\* under both option names or under the second only ("" is an option unset)
OptionsDomain ==
    { [capture |-> FALSE, auth_webhook_id |-> "WH-A", authWebhookId |-> "WH-B"],
      [capture |-> TRUE,  auth_webhook_id |-> "",     authWebhookId |-> "WH-B"] }

Init ==
    /\ options \in OptionsDomain
    /\ \E o1 \in RemoteOrders("O1") :
         remote = [o \in OrderIds |-> IF o = "O1" THEN o1 ELSE IdleOrder(o)]
    /\ pc = [p \in Procs |-> "idle"]
    /\ op = [p \in Procs |-> ""]
    /\ input = [p \in Procs |-> Args([id |-> OrderOf(p)], 0, "usd")]
    /\ local = [p \in Procs |-> NoLocal]
    /\ calls = [p \in Procs |-> <<>>]
    /\ result = [p \in Procs |-> Pending]
    /\ nops = [p \in Procs |-> 0]

Step(p) ==
    \/ getPaymentStatus(p)
    \/ getPaymentStatus_getOrder(p)
    \/ retrievePayment(p)
    \/ retrievePayment_getOrder(p)
    \/ authorizePayment(p)
    \/ authorizePayment_getPaymentStatus(p)
    \/ authorizePayment_retrievePayment(p)
    \/ cancelPayment(p)
    \/ cancelPayment_retrievePayment(p)
    \/ cancelPayment_refundPayment(p)
    \/ cancelPayment_cancelAuthorizedPayment(p)
    \/ cancelPayment_retrieveAgain(p)
    \/ capturePayment(p)
    \/ capturePayment_captureAuthorizedPayment(p)
    \/ capturePayment_retrievePayment(p)
    \/ deletePayment(p)
    \/ refundPayment(p)
    \/ refundPayment_refundPayment(p)
    \/ refundPayment_retrievePayment(p)
    \/ initiatePayment(p)
    \/ initiatePayment_createOrder(p)
    \/ updatePayment(p)
    \/ updatePayment_patchOrder(p)
    \/ updatePaymentData(p)
    \/ retrieveOrderFromAuth(p)
    \/ retrieveOrderFromAuth_getOrder(p)
    \/ retrieveAuthorization(p)
    \/ retrieveAuthorization_getAuthorizationPayment(p)
    \/ verifyWebhook(p)
    \/ verifyWebhook_verifyWebhook(p)
    \/ getWebhookActionAndData(p)
    \/ Resume(p)

\* the host runs one lifecycle method at a time
Next == Step(1)

Spec == Init /\ [][Next]_vars

----------------------------------------------------------------------------
(* What the claims speak of *)

LifecycleOps ==
    {"initiatePayment", "getPaymentStatus", "authorizePayment",
     "cancelPayment", "capturePayment", "refundPayment", "updatePayment",
     "updatePaymentData"}

\* method o has settled on slot p
Done(p, o) == pc[p] = "done" /\ op[p] = o

\* the promise resolved with a NormalizedError {error, code, detail}
IsNormalizedError(r) ==
    /\ r.kind = "return"
    /\ r.type = "error"
    /\ DOMAIN r.value = {"error", "code", "detail"}

\* the calls of slot p to remote function fn
CallsTo(p, fn) == { i \in 1..Len(calls[p]) : calls[p][i].fn = fn }

\* the first remote call of slot p was a getOrder that resolved
Retrieved(p) ==
    /\ Len(calls[p]) >= 1
    /\ calls[p][1].fn = "getOrder"
    /\ calls[p][1].ok

\* the order that getOrder resolved with
RetrievedOrder(p) == calls[p][1].ret.value

\* an order VOIDED, or COMPLETED with a non-empty invoice_id
ShortCircuits(order) ==
    \/ order.status = "VOIDED"
    \/ (order.status = "COMPLETED" /\ order.invoice_id # "")

\* the captures of a purchase unit, none when the list is absent
CapturesOf(pu) ==
    IF "captures" \in DOMAIN pu.payments THEN pu.payments.captures ELSE <<>>

\* all capture ids of an order or session snapshot, in order
RECURSIVE AllCaptures(_)
AllCaptures(units) ==
    IF units = <<>> THEN <<>>
    ELSE CapturesOf(Head(units)) \o AllCaptures(Tail(units))

RECURSIVE AllAuthorizations(_)
AllAuthorizations(units) ==
    IF units = <<>> THEN <<>>
    ELSE Head(units).payments.authorizations \o AllAuthorizations(Tail(units))

----------------------------------------------------------------------------
(* The formatting specification: convertAmount applied on its own *)

\* every code of the table, the lower-case spellings the model upper-cases,
\* and an unsupported code
FormatCurrencies ==
    DOMAIN PAYPAL_CURRENCY_CODES \cup {"usd", "jpy", "huf", "twd", "eur", "xyz"}

\* amounts in thousandths: zero, below one unit, whole and fractional
FormatAmounts == {0, 4, 50, 1000, 1990, 10000, 123456, 99999999}

\* one call of convertAmount(amount, currency): it returns the formatted
\* amount or throws
convertAmountCall(p) ==
    /\ \E amount \in FormatAmounts, currency \in FormatCurrencies :
         LET r == convertAmount(amount, currency) IN
         /\ Invoke(p, "convertAmount",
                   Args([id |-> OrderOf(p)], amount, currency))
         /\ Settle(p, IF r.ok THEN Return("amount", r.value)
                      ELSE Throw(r.error))
    /\ UNCHANGED <<options, remote>>

InitFormat ==
    /\ options = [capture |-> FALSE, auth_webhook_id |-> "WH-A",
                  authWebhookId |-> "WH-B"]
    /\ remote = [o \in OrderIds |-> IdleOrder(o)]
    /\ pc = [p \in Procs |-> "idle"]
    /\ op = [p \in Procs |-> ""]
    /\ input = [p \in Procs |-> Args([id |-> OrderOf(p)], 0, "usd")]
    /\ local = [p \in Procs |-> NoLocal]
    /\ calls = [p \in Procs |-> <<>>]
    /\ result = [p \in Procs |-> Pending]
    /\ nops = [p \in Procs |-> 0]

NextFormat ==
    \/ convertAmountCall(1)
    \/ Resume(1)

SpecFormat == InitFormat /\ [][NextFormat]_vars

----------------------------------------------------------------------------
(* The concurrent specification: two host calls in flight on one adapter *)

\* each slot has one method left to invoke, on its own session, and the
\* awaits of the two methods interleave in every order
InitConc ==
    /\ options = [capture |-> FALSE, auth_webhook_id |-> "WH-A",
                  authWebhookId |-> "WH-B"]
    /\ remote = [o \in OrderIds |-> IdleOrder(o)]
    /\ pc = [p \in Procs |-> "idle"]
    /\ op = [p \in Procs |-> ""]
    /\ input = [p \in Procs |-> Args([id |-> OrderOf(p)], 0, "usd")]
    /\ local = [p \in Procs |-> NoLocal]
    /\ calls = [p \in Procs |-> <<>>]
    /\ result = [p \in Procs |-> Pending]
    /\ nops = [p \in Procs |-> MaxOps - 1]

NextConc == \E p \in Procs : Step(p)

SpecConc == InitConc /\ [][NextConc]_vars

----------------------------------------------------------------------------
(* C1 *)

\* C1: every lifecycle method settles by resolving with a success payload or
\* a NormalizedError; its promise never rejects and never resolves with
\* undefined, whatever the remote calls do.
C1_NeverRaises ==
    \A p \in Procs :
        (pc[p] = "done" /\ op[p] \in LifecycleOps)
            => /\ result[p].kind = "return"
               /\ result[p].type # "undefined"
               /\ (result[p].type = "error" => IsNormalizedError(result[p]))

(* C2 *)

\* C2: authorizePayment resolves with a NormalizedError when either of its
\* two order retrievals failed, and with {data, status} only when both
\* succeeded, data being the order of the second retrieval.
C2_AuthorizeNoPartialSuccess ==
    \A p \in Procs :
        Done(p, "authorizePayment")
            => /\ (\E i \in 1..Len(calls[p]) : ~calls[p][i].ok)
                    => IsNormalizedError(result[p])
               /\ result[p].type = "authorized"
                    => /\ Len(calls[p]) = 2
                       /\ \A i \in 1..2 : calls[p][i].ok
                       /\ result[p].value.data = calls[p][2].ret

(* C3 *)

\* C3: when the order retrieved at the start of cancelPayment is VOIDED, or
\* COMPLETED with a non-empty invoice_id, cancelPayment has settled with that
\* order, the single getOrder is its only remote call and the remote order is
\* as it was retrieved.
C3_CancelShortCircuit ==
    \A p \in Procs :
        (op[p] = "cancelPayment" /\ Retrieved(p)
         /\ ShortCircuits(RetrievedOrder(p)))
            => /\ pc[p] = "done"
               /\ result[p] = Return("order", RetrievedOrder(p))
               /\ Len(calls[p]) = 1
               /\ calls[p][1].id = input[p].data.id
               /\ remote[input[p].data.id] = RetrievedOrder(p)

\* a cancelPayment that short-circuited on a COMPLETED, invoiced order whose
\* session data lists a capture
C3_Witness ==
    \E p \in Procs :
        /\ Done(p, "cancelPayment") /\ Retrieved(p)
        /\ RetrievedOrder(p).status = "COMPLETED"
        /\ RetrievedOrder(p).invoice_id # ""
        /\ AllCaptures(input[p].data.purchase_units) # <<>>
        /\ result[p].type = "order"

(* C4 *)

\* C4: a cancelPayment that was not short-circuited has issued exactly one
\* refundPayment against the first capture id and no cancelAuthorizedPayment
\* when the retrieved order has captures, and exactly one
\* cancelAuthorizedPayment against the first authorization id and no
\* refundPayment when it has authorizations and no captures.
C4_CancelRefundsOrVoids ==
    \A p \in Procs :
        (Done(p, "cancelPayment") /\ Retrieved(p)
         /\ ~ShortCircuits(RetrievedOrder(p)))
            => LET caps  == AllCaptures(RetrievedOrder(p).purchase_units)
                   auths == AllAuthorizations(RetrievedOrder(p).purchase_units)
               IN  /\ caps # <<>>
                        => /\ Cardinality(CallsTo(p, "refundPayment")) = 1
                           /\ \A i \in CallsTo(p, "refundPayment") :
                                  calls[p][i].id = caps[1]
                           /\ CallsTo(p, "cancelAuthorizedPayment") = {}
                   /\ (caps = <<>> /\ auths # <<>>)
                        => /\ Cardinality(
                                 CallsTo(p, "cancelAuthorizedPayment")) = 1
                           /\ \A i \in CallsTo(p, "cancelAuthorizedPayment") :
                                  calls[p][i].id = auths[1]
                           /\ CallsTo(p, "refundPayment") = {}

(* C5 *)

\* C5: refundPayment on session data in which no purchase unit has a capture
\* has settled with the NormalizedError of "Cannot refund an uncaptured
\* payment" and has issued no remote call.
C5_RefundUncaptured ==
    \A p \in Procs :
        (op[p] = "refundPayment"
         /\ AllCaptures(input[p].data.purchase_units) = <<>>)
            => /\ pc[p] = "done"
               /\ IsNormalizedError(result[p])
               /\ result[p].value.error = "An error occurred in refundPayment"
               /\ result[p].value.detail = "Cannot refund an uncaptured payment"
               /\ calls[p] = <<>>

\* a refundPayment that settled on session data holding an authorization and
\* no capture
C5_Witness ==
    \E p \in Procs :
        /\ Done(p, "refundPayment")
        /\ AllCaptures(input[p].data.purchase_units) = <<>>
        /\ AllAuthorizations(input[p].data.purchase_units) # <<>>
        /\ result[p].type = "error"

(* C6 *)

\* the patchOrder call of updatePayment on slot p was issued and failed
PatchFailed(p) ==
    /\ op[p] = "updatePayment"
    /\ Len(calls[p]) >= 1
    /\ calls[p][1].fn = "patchOrder"
    /\ ~calls[p][1].ok

\* C6: once the patchOrder call of updatePayment has failed, the method goes
\* on to one createOrder call that carries the session id and the new amount
\* formatted in the new currency, and when that call succeeds the method
\* resolves with {data: the created order}, not with an error.
C6_UpdateFallsBackToCreate ==
    \A p \in Procs :
        PatchFailed(p)
            => /\ pc[p] \in {"initiatePayment.createOrder", "done"}
               /\ pc[p] = "done"
                    => /\ Len(calls[p]) = 2
                       /\ calls[p][2].fn = "createOrder"
                       /\ calls[p][2].body.purchase_units =
                            <<[custom_id |-> input[p].context.session_id,
                               amount |-> convertAmount(input[p].amount,
                                            input[p].currency_code).value]>>
                       /\ calls[p][2].ok
                            => result[p] =
                                 Return("response",
                                        [data |-> calls[p][2].ret.value])

\* an updatePayment whose patch failed and whose fallback creation succeeded
C6_Witness ==
    \E p \in Procs :
        /\ PatchFailed(p) /\ pc[p] = "done"
        /\ Len(calls[p]) = 2 /\ calls[p][2].ok
        /\ result[p].type = "response"
        /\ result[p].value.data.id = "NEW"

(* C7 *)

\* C7: when the patchOrder call of updatePayment failed and the createOrder
\* call of the fallback failed too, the method resolves with a NormalizedError
\* whose code and detail are those of the patch error.
C7_FallbackFailureReportsPatchError ==
    \A p \in Procs :
        (PatchFailed(p) /\ pc[p] = "done" /\ Len(calls[p]) = 2
         /\ ~calls[p][2].ok)
            => LET patchError == calls[p][1].ret.value IN
               /\ IsNormalizedError(result[p])
               /\ result[p].value.code = buildError("", patchError).code
               /\ result[p].value.detail = buildError("", patchError).detail

(* C8 *)

\* C8: retrievePayment issues one getOrder for sessionData.id and resolves
\* with the remote order when the call succeeds and with a NormalizedError
\* when it fails.
C8_RetrieveReturnsOrderOrError ==
    \A p \in Procs :
        Done(p, "retrievePayment")
            => /\ Len(calls[p]) = 1
               /\ calls[p][1].fn = "getOrder"
               /\ calls[p][1].id = input[p].data.id
               /\ calls[p][1].ok
                    => result[p] = Return("order", calls[p][1].ret.value)
               /\ ~calls[p][1].ok => IsNormalizedError(result[p])

(* C9 *)

\* C9: updatePaymentData resolves with a NormalizedError for every payload
\* that has an amount field, whatever its value, and with the payload itself
\* for every payload without one; it issues no remote call.
C9_UpdateDataRejectsAmount ==
    \A p \in Procs :
        Done(p, "updatePaymentData")
            => /\ calls[p] = <<>>
               /\ "amount" \in DOMAIN input[p].data
                    => IsNormalizedError(result[p])
               /\ "amount" \notin DOMAIN input[p].data
                    => result[p] = Return("data", input[p].data)

(* C10 *)

\* C10: when its order retrieval succeeded, getPaymentStatus resolves with
\* the session status that the table gives for the remote order's status
\* alone, and the retrieval is the only remote call it issued.
C10_StatusTable ==
    \A p \in Procs :
        (op[p] = "getPaymentStatus" /\ Retrieved(p))
            => LET st == RetrievedOrder(p).status IN
               /\ pc[p] = "done"
               /\ Len(calls[p]) = 1
               /\ remote[input[p].data.id] = RetrievedOrder(p)
               /\ result[p].kind = "return" /\ result[p].type = "status"
               /\ st = "CREATED" => result[p].value = "PENDING"
               /\ st \in {"SAVED", "APPROVED", "PAYER_ACTION_REQUIRED"}
                    => result[p].value = "REQUIRES_MORE"
               /\ st = "VOIDED" => result[p].value = "CANCELED"
               /\ st = "COMPLETED" => result[p].value = "AUTHORIZED"
               /\ st \notin PaypalOrderStatus => result[p].value = "PENDING"

\* a getPaymentStatus that settled on a COMPLETED order
C10_Witness ==
    \E p \in Procs :
        /\ Done(p, "getPaymentStatus") /\ Retrieved(p)
        /\ RetrievedOrder(p).status = "COMPLETED"
        /\ result[p].type = "status"

(* C11 *)

\* the calls of slot p to createOrder with the intent of the configuration,
\* one purchase unit, the session id as custom_id and the formatted amount
IsInitiateCall(p, c) ==
    LET a == convertAmount(input[p].amount, input[p].currency_code) IN
    /\ c.fn = "createOrder"
    /\ c.body.intent = (IF options.capture THEN "CAPTURE" ELSE "AUTHORIZE")
    /\ Len(c.body.purchase_units) = 1
    /\ c.body.purchase_units[1].custom_id = input[p].context.session_id
    /\ a.ok
    /\ c.body.purchase_units[1].amount = a.value

\* the result of initiatePayment given its single createOrder call
IsInitiateResult(p, c) ==
    IF c.ok
    THEN result[p] = Return("response", [data |-> c.ret.value])
    ELSE /\ IsNormalizedError(result[p])
         /\ result[p].value.error = InitiateMessage

\* C11 as stated: every settled initiatePayment has issued exactly one
\* createOrder call with the configured intent and one purchase unit
\* carrying the session id and the formatted amount, and has resolved with
\* {data: order} or, when createOrder failed, with a NormalizedError.
C11_InitiateCreatesOneOrder ==
    \A p \in Procs :
        Done(p, "initiatePayment")
            => /\ Len(calls[p]) = 1
               /\ IsInitiateCall(p, calls[p][1])
               /\ IsInitiateResult(p, calls[p][1])

\* C11: a settled initiatePayment whose amount can be formatted has issued
\* exactly one createOrder call with the configured intent and one purchase
\* unit carrying the session id and the formatted amount, and has resolved
\* with {data: order} or, when createOrder failed, with a NormalizedError;
\* when the amount cannot be formatted it has issued no call and resolved
\* with a NormalizedError.
C11_InitiateCreatesOneOrderIfFormatted ==
    \A p \in Procs :
        Done(p, "initiatePayment")
            => IF convertAmount(input[p].amount, input[p].currency_code).ok
               THEN /\ Len(calls[p]) = 1
                    /\ IsInitiateCall(p, calls[p][1])
                    /\ IsInitiateResult(p, calls[p][1])
               ELSE /\ calls[p] = <<>>
                    /\ IsNormalizedError(result[p])

\* an initiatePayment under the CAPTURE configuration whose createOrder
\* succeeded and whose result carries the created order
C11_Witness ==
    \E p \in Procs :
        /\ Done(p, "initiatePayment")
        /\ options.capture
        /\ Len(calls[p]) = 1 /\ calls[p][1].ok
        /\ result[p].type = "response"
        /\ result[p].value.data.intent = "CAPTURE"

(* C12 *)

\* the authorization has a link whose rel is "up"
HasUpLink(authorization) ==
    \E i \in 1..Len(authorization.links) :
        /\ "rel" \in DOMAIN authorization.links[i]
        /\ authorization.links[i].rel = "up"

\* C12: a settled retrieveOrderFromAuth whose authorization has an "up" link
\* with an order id at the end of its href has issued one getOrder for that
\* id and nothing else; one whose authorization has no "up" link has
\* resolved with null, without rejecting and without a remote call.
C12_OrderFromAuthOrNull ==
    \A p \in Procs :
        Done(p, "retrieveOrderFromAuth")
            => LET authorization == input[p].data
                   r == orderIdOfAuth(authorization) IN
               /\ (HasUpLink(authorization) /\ r.kind = "fetch")
                    => /\ Len(calls[p]) = 1
                       /\ calls[p][1].fn = "getOrder"
                       /\ calls[p][1].id = r.id
               /\ ~HasUpLink(authorization)
                    => /\ result[p] = Return("null", <<>>)
                       /\ calls[p] = <<>>

(* C13 *)

\* the settled result is the host action act for session id sid
IsWebhookResult(r, act, sid) ==
    /\ r.kind = "return"
    /\ r.type = "webhook"
    /\ r.value.action = act
    /\ "data" \in DOMAIN r.value
    /\ r.value.data.session_id = sid

\* C13: a settled getWebhookActionAndData has mapped the event of its
\* payload: authorized gives AUTHORIZED for the first authorization id,
\* succeeded gives SUCCESSFUL for the first capture id, failed gives FAILED
\* for the first capture id, or the first authorization id when there is no
\* capture, any other event gives NOT_SUPPORTED; and it has not raised for a
\* payload without a capture.
C13_WebhookActionFollowsEvent ==
    \A p \in Procs :
        Done(p, "getWebhookActionAndData")
            => LET w     == input[p].data
                   pu    == w.data.purchase_units[1]
                   caps  == CapturesOf(pu)
                   auths == pu.payments.authorizations
                   r     == result[p]
               IN
               /\ caps = <<>> => r.kind = "return"
               /\ (w.event = "authorized" /\ auths # <<>>)
                    => IsWebhookResult(r, "AUTHORIZED", auths[1])
               /\ (w.event = "succeeded" /\ caps # <<>>)
                    => IsWebhookResult(r, "SUCCESSFUL", caps[1])
               /\ (w.event = "failed" /\ caps # <<>>)
                    => IsWebhookResult(r, "FAILED", caps[1])
               /\ (w.event = "failed" /\ caps = <<>> /\ auths # <<>>)
                    => IsWebhookResult(r, "FAILED", auths[1])
               /\ (w.event = "other" /\ caps # <<>> /\ auths # <<>>)
                    => /\ r.kind = "return"
                       /\ r.type = "webhook"
                       /\ r.value.action = "NOT_SUPPORTED"

(* C14 *)

\* the webhook id of the configuration: auth_webhook_id when set, otherwise
\* authWebhookId
ConfiguredId ==
    IF options.auth_webhook_id = "" THEN options.authWebhookId
    ELSE options.auth_webhook_id

\* the fields of a record other than webhook_id
OtherFields(r) == [f \in DOMAIN r \ {"webhook_id"} |-> r[f]]

\* C14 as stated: a verifyWebhook that has issued its remote call has issued
\* exactly one verifyWebhook call, whose webhook_id is the configured
\* identifier for every caller payload and whose other fields are the
\* caller's.
C14_WebhookIdIsConfigured ==
    \A p \in Procs :
        Done(p, "verifyWebhook")
            => /\ Len(calls[p]) = 1
               /\ calls[p][1].fn = "verifyWebhook"
               /\ calls[p][1].body.webhook_id = ConfiguredId
               /\ OtherFields(calls[p][1].body) = OtherFields(input[p].data)

\* C14: a settled verifyWebhook has issued exactly one verifyWebhook call
\* whose fields are the caller's, with the configured identifier as
\* webhook_id when the caller's payload has no webhook_id of its own; a
\* webhook_id in the caller's payload is sent as it is.
C14_WebhookIdIsConfiguredUnlessSupplied ==
    \A p \in Procs :
        Done(p, "verifyWebhook")
            => /\ Len(calls[p]) = 1
               /\ calls[p][1].fn = "verifyWebhook"
               /\ OtherFields(calls[p][1].body) = OtherFields(input[p].data)
               /\ calls[p][1].body.webhook_id =
                    (IF "webhook_id" \in DOMAIN input[p].data
                     THEN input[p].data.webhook_id
                     ELSE ConfiguredId)

\* a verifyWebhook without a webhook_id of the caller, under a configuration
\* that sets only authWebhookId, that sent the configured id
C14_Witness ==
    \E p \in Procs :
        /\ Done(p, "verifyWebhook")
        /\ "webhook_id" \notin DOMAIN input[p].data
        /\ options.auth_webhook_id = ""
        /\ Len(calls[p]) = 1
        /\ calls[p][1].body.webhook_id = "WH-B"
        /\ result[p].type = "boolean"

(* C15 *)

FormattingOps == {"initiatePayment", "refundPayment", "updatePayment"}

\* the currency code the operation of slot p formats its amount with
FormatCurrency(p) ==
    IF op[p] = "refundPayment"
    THEN input[p].data.purchase_units[1].amount.currency_code
    ELSE input[p].currency_code

\* the code is not in the supported table after upper-casing
Unsupported(currency) ==
    toUpperCase(currency) \notin DOMAIN PAYPAL_CURRENCY_CODES

\* the amount a createOrder, patchOrder or refundPayment call carries
AmountOfCall(c) ==
    IF c.fn = "createOrder" THEN c.body.purchase_units[1].amount
    ELSE c.body.amount

\* C15: a settled initiatePayment, refundPayment or updatePayment whose
\* currency code is not in the supported table after upper-casing has
\* resolved with a NormalizedError and issued no createOrder, patchOrder or
\* refundPayment call; an initiatePayment or updatePayment whose code is
\* supported in either letter case has sent its amount under the upper-cased
\* code.
C15_FormatFailureIsNormalizedError ==
    \A p \in Procs :
        (pc[p] = "done" /\ op[p] \in FormattingOps)
            => IF Unsupported(FormatCurrency(p))
               THEN /\ IsNormalizedError(result[p])
                    /\ \A i \in 1..Len(calls[p]) :
                         calls[p][i].fn \notin
                             {"createOrder", "patchOrder", "refundPayment"}
               ELSE op[p] \in {"initiatePayment", "updatePayment"}
                      => /\ Len(calls[p]) >= 1
                         /\ calls[p][1].fn \in {"createOrder", "patchOrder"}
                         /\ AmountOfCall(calls[p][1]).currency_code
                              = toUpperCase(FormatCurrency(p))

\* a refundPayment of a captured session whose purchase unit is in an
\* unsupported currency, settled with a NormalizedError and no call
C15_Witness ==
    \E p \in Procs :
        /\ Done(p, "refundPayment")
        /\ AllCaptures(input[p].data.purchase_units) # <<>>
        /\ Unsupported(FormatCurrency(p))
        /\ IsNormalizedError(result[p])
        /\ calls[p] = <<>>

(* C16 *)

\* the number of characters after the decimal point of a value string, -1
\* when it has no decimal point
DecimalPlaces(v) ==
    LET i == indexOf(v, ".", 1) IN
    IF i = 0 THEN -1 ELSE Len(v) - i

\* the decimal places the table gives a supported code: none for a
\* decimal: false entry, the entry's places when it has any, otherwise 2
PlacesOf(code) ==
    LET entry == PAYPAL_CURRENCY_CODES[code] IN
    IF "decimal" \in DOMAIN entry /\ entry.decimal = FALSE THEN -1
    ELSE IF "places" \in DOMAIN entry THEN entry.places
    ELSE 2

\* C16: for every supported currency, in either letter case, and every
\* amount, convertAmount has returned the upper-cased code and a value with
\* no decimal point when the table entry has decimal: false (HUF, JPY, TWD)
\* and with exactly the configured number of decimal places, 2 by default,
\* otherwise.
C16_DecimalPlacesFollowTable ==
    \A p \in Procs :
        (Done(p, "convertAmount")
         /\ toUpperCase(input[p].currency_code) \in DOMAIN PAYPAL_CURRENCY_CODES)
            => LET code == toUpperCase(input[p].currency_code) IN
               /\ result[p].kind = "return"
               /\ result[p].value.currency_code = code
               /\ DecimalPlaces(result[p].value.value) = PlacesOf(code)
               /\ code \in {"HUF", "JPY", "TWD"}
                    => DecimalPlaces(result[p].value.value) = -1
               /\ code \notin {"HUF", "JPY", "TWD"}
                    => DecimalPlaces(result[p].value.value) = 2

\* an amount converted for a currency without decimals, given in lower case
C16_Witness ==
    \E p \in Procs :
        /\ Done(p, "convertAmount")
        /\ input[p].currency_code = "jpy"
        /\ input[p].amount = 1990
        /\ result[p] = Return("amount",
                              [value |-> "2", currency_code |-> "JPY"])

(* C17 *)

\* C17: in every lifecycle operation other than updatePayment, a remote
\* call that failed is the last call of the operation, so nothing is issued
\* or re-issued after it, and the operation settles with a NormalizedError;
\* this includes a failed final getOrder after a successful capture, refund
\* or void.
C17_FailureAbortsWithOneError ==
    \A p \in Procs :
        (op[p] \in LifecycleOps \ {"updatePayment"})
            => \A i \in 1..Len(calls[p]) :
                 ~calls[p][i].ok
                    => /\ i = Len(calls[p])
                       /\ pc[p] = "done"
                       /\ IsNormalizedError(result[p])

(* C18 *)

\* the remote function an operation mutates the payment with
IsMutation(o, fn) ==
    \/ o = "capturePayment" /\ fn = "captureAuthorizedPayment"
    \/ o = "refundPayment"  /\ fn = "refundPayment"
    \/ o = "cancelPayment"  /\ fn \in {"refundPayment",
                                       "cancelAuthorizedPayment"}

\* slot p has issued a mutating call
Mutated(p) ==
    \E i \in 1..Len(calls[p]) : IsMutation(op[p], calls[p][i].fn)

\* C18: a capturePayment, refundPayment or cancelPayment that has issued its
\* mutating call and settled with an order returns the order of a getOrder
\* that is its last call, issued right after the mutating call resolved; that
\* order is the remote order as the mutation left it. A capturePayment whose
\* session data lists an authorization starts with captureAuthorizedPayment
\* for the first authorization id, with no getOrder before it.
C18_ReturnsOrderRetrievedAfterMutation ==
    \A p \in Procs :
        /\ (pc[p] = "done" /\ Mutated(p)
            /\ result[p].kind = "return" /\ result[p].type = "order")
              => LET n == Len(calls[p]) IN
                 /\ n >= 2
                 /\ calls[p][n].fn = "getOrder" /\ calls[p][n].ok
                 /\ IsMutation(op[p], calls[p][n - 1].fn)
                 /\ calls[p][n - 1].ok
                 /\ result[p].value = calls[p][n].ret.value
                 /\ result[p].value = remote[input[p].data.id]
                 /\ \A i \in 1..(n - 2) :
                      calls[p][i].ret # calls[p][n].ret
        /\ (op[p] = "capturePayment"
            /\ input[p].data.purchase_units[1].payments.authorizations # <<>>)
              => /\ pc[p] = "done" => Len(calls[p]) >= 1
                 /\ Len(calls[p]) >= 1
                      => /\ calls[p][1].fn = "captureAuthorizedPayment"
                         /\ calls[p][1].id =
                              input[p].data.purchase_units[1]
                                  .payments.authorizations[1]

\* a capturePayment whose capture and re-retrieval succeeded: the order
\* returned lists the new capture
C18_Witness ==
    \E p \in Procs :
        /\ Done(p, "capturePayment")
        /\ Len(calls[p]) = 2
        /\ result[p].type = "order"
        /\ result[p].value.status = "COMPLETED"
        /\ \E i \in 1..Len(CapturesOf(result[p].value.purchase_units[1])) :
             CapturesOf(result[p].value.purchase_units[1])[i]
                 = input[p].data.id \o ".C9"

(* C19 *)

\* the order retrieved by slot p lists a capture its session data lacks
StaleSession(p) ==
    /\ AllCaptures(RetrievedOrder(p).purchase_units) # <<>>
    /\ AllCaptures(input[p].data.purchase_units) = <<>>

\* C19: the call a cancelPayment issues after its retrieval follows the
\* retrieved order and not the session snapshot of the caller: it is never a
\* cancelAuthorizedPayment when the retrieved order has a capture, its target
\* is a capture or authorization id of the retrieved order, and with a
\* session snapshot that lacks the capture a refundPayment of the retrieved
\* order's first capture is issued.
C19_CancelDecidesOnRetrievedOrder ==
    \A p \in Procs :
        (op[p] = "cancelPayment" /\ Retrieved(p)
         /\ ~ShortCircuits(RetrievedOrder(p)))
            => LET caps  == AllCaptures(RetrievedOrder(p).purchase_units)
                   auths == AllAuthorizations(RetrievedOrder(p).purchase_units)
               IN
               /\ Len(calls[p]) >= 2
                    => /\ calls[p][2].fn = "refundPayment" <=> caps # <<>>
                       /\ caps # <<>> => calls[p][2].id = caps[1]
                       /\ caps = <<>>
                            => /\ auths # <<>>
                               /\ calls[p][2].id = auths[1]
               /\ (StaleSession(p) /\ pc[p] = "done")
                    => /\ Len(calls[p]) >= 2
                       /\ calls[p][2].fn = "refundPayment"

(* C20 *)

\* everything the model holds for the call of slot p
Slot(p) == <<pc[p], op[p], input[p], local[p], calls[p], result[p], nops[p]>>

\* the ids a call of slot p may name: its session's order, authorizations
\* and captures, or none
OwnIds(p) ==
    LET o == OrderOf(p) IN
    {"", o, o \o ".A1", o \o ".A2", o \o ".C1", o \o ".C2", o \o ".C9"}

\* the remote calls of every slot are on its own session's ids
OwnCallsOnly ==
    \A p \in Procs : \A i \in 1..Len(calls[p]) : calls[p][i].id \in OwnIds(p)

\* one step of the adapter: the configuration is left as it is, the step
\* belongs to one call, and it leaves the other call, and the order of the
\* other call's session, as they were
StepIsLocal ==
    /\ options' = options
    /\ OwnCallsOnly'
    /\ \E p \in Procs :
         \A q \in Procs \ {p} :
             /\ Slot(q)' = Slot(q)
             /\ remote'[OrderOf(q)] = remote[OrderOf(q)]

\* C20: with two lifecycle operations in flight for different sessions,
\* every step of one operation leaves the configuration, the whole state of
\* the other operation and the other session's order unchanged, and every
\* remote call is on the ids of the calling operation's own session; so
\* each operation meets, at each of its steps, the state it would meet when
\* running alone.
C20_OperationsDoNotInterfere == [][StepIsLocal]_vars

\* a capture and a cancellation for different sessions, both past their
\* first remote call and both waiting for the next one
C20_Witness ==
    /\ op[1] = "capturePayment" /\ pc[1] = "capturePayment.retrievePayment"
    /\ op[2] = "cancelPayment" /\ pc[2] = "cancelPayment.cancelAuthorizedPayment"
    /\ Len(calls[1]) = 1 /\ calls[1][1].id = "O1.A1"
    /\ Len(calls[2]) = 1 /\ calls[2][1].id = "O2"
    /\ remote["O1"].status = "COMPLETED"
    /\ remote["O2"].status = "APPROVED"

====
